---- MODULE Spec2Model ----
(***************************************************************************)
(* A model of the beatmaker step sequencer                                 *)
(* (src/app/components/beatmaker.tsx): the pattern codec                   *)
(* (encodePattern / decodePattern) as operators on strings and 32-bit      *)
(* words, the export's length arithmetic in doubles, and the Beatmaker     *)
(* component as a state machine whose actions are its event handlers, its  *)
(* timer callbacks and the renders React makes of the state they set.      *)
(***************************************************************************)
EXTENDS Integers, Sequences, FiniteSets, TLC

VARIABLES
    \* ---- pattern codec, applied as a pure function -----------------------
    codecPc,      \* "start" | "encoded" | "decoded"
    codecMode,    \* "roundtrip": encode then decode; "decode": decode argStr
    argGrid,      \* encodePattern's grid argument
    argTempo,     \* encodePattern's tempo argument
    argStr,       \* decodePattern's string argument
    argRows,      \* decodePattern's sampleCount argument
    result,       \* decodePattern's return value
    \* ---- the export's output length, computed as a pure function ---------
    mixPc,        \* "start" | "awaiting" | "done" | "failed"
    mixSelected,  \* the grid exported
    mixTempo,     \* the tempo exported, a number that may be NaN
    mixDecoded,   \* per row, the length decodeAudioData gives its sample
    buffers,      \* per row, the length of the loaded AudioBuffer, or NoBuffer
    totalSamples, \* the number handed to new Float32Array
    outputLength, \* output.length
    \* ---- the Beatmaker component: React state ----------------------------
    phase,        \* "unmounted" | "mounted"
    initialized,
    samples,      \* array of [name, isUserSample]
    userSampleUrl,
    selected,     \* the grid: array of rows, each an array of booleans
    tempo,        \* a number that may be NaN
    currentStep,
    isPlaying,
    showExportModal,
    exporting,
    exportError,
    exportUrl,
    uploadError,
    flashedColumn, \* the column highlighted after a header click, or NoColumn
    showShareModal,
    copied,
    renderError,  \* a render threw: React has unmounted the component
    rendered,     \* the state of the last render committed: the closure of
                  \* the handlers and effects
    \* ---- refs ------------------------------------------------------------
    intervalRef,
    flashTimeoutRef,
    tempoChangeIntervalRef,
    tempoChangeTimeoutRef,
    tempoChangeActiveRef,
    \* ---- the browser -----------------------------------------------------
    timers,       \* the pending timers: [id, kind, ms, delta, gone]; gone: set
                  \* by a component that is no longer mounted
    ls,           \* window.localStorage
    revoked,      \* the object URLs revoked so far
    nextUrl,      \* how many object URLs were created
    exportJob,    \* the handleExportWav call awaiting its samples, if any
    abandoned,    \* how many handleExportWav calls of components no longer
                  \* mounted still await their samples
    \* ---- observation -----------------------------------------------------
    urlSong,      \* the ?song= parameter of the page load just done, else Null
    prevPress,    \* before a release: what the tempo press had come to
    pressTempo,   \* the tempo at a press that only its hold delay followed, else NaN
    played,       \* the sounds playSound started during the last action
    lastAction,   \* the last action taken
    prevStep,     \* currentStep before the last action
    prevTempo,    \* tempo before the last action
    queued,       \* the callbacks that set state since the last render
    uploaded,     \* the object URLs made for uploaded files
    events        \* user gestures and tempo repeats so far

mixVars ==
    <<mixPc, mixSelected, mixTempo, mixDecoded, buffers, totalSamples, outputLength>>

codecVars ==
    <<codecPc, codecMode, argGrid, argTempo, argStr, argRows, result, mixVars>>

compVars ==
    <<phase, initialized, samples, userSampleUrl, selected, tempo, currentStep,
      isPlaying, showExportModal, exporting, exportError, exportUrl, uploadError,
      flashedColumn, showShareModal, copied, renderError, rendered,
      flashTimeoutRef, intervalRef, tempoChangeIntervalRef, tempoChangeTimeoutRef,
      tempoChangeActiveRef, timers, ls, revoked, nextUrl, exportJob, abandoned,
      played, lastAction, prevStep, prevTempo, events, urlSong,
      prevPress, pressTempo, queued, uploaded>>

vars == <<codecVars, compVars>>

(***************************************************************************)
(* Program constants.                                                      *)
(***************************************************************************)
DEFAULT_NUM_STEPS == 32
DEFAULT_TEMPO_BPM == 120
MIN_TEMPO == 60
MAX_TEMPO == 240
DEFAULT_SONG_STRING == "-x3cow.x35kw.-2hwcg0.5mmvrd.mww.4fti4g.4wmww.-zik0yk,120"

(***************************************************************************)
(* JavaScript values.                                                      *)
(*   A number that may be NaN is a record [nan, v].                        *)
(*   A 32-bit integer (the operand of |, << and >>) is a record [hi, lo]   *)
(*   of its two 16-bit halves, so that all 32 bits, the sign bit included, *)
(*   are kept: the word is hi * 2^16 + lo modulo 2^32, negative when       *)
(*   hi >= 2^15.                                                           *)
(*   Arrays are functions on 0 .. length-1.                                *)
(***************************************************************************)
Num(n) == [nan |-> FALSE, v |-> n]
NaN == [nan |-> TRUE, v |-> 0]

Half == 256 * 256
Word(h, l) == [hi |-> h, lo |-> l]
Zero32 == Word(0, 0)
IsNeg32(w) == w.hi >= 32768
\* two's complement negation modulo 2^32
Neg32(w) ==
    IF w.lo = 0 THEN Word((Half - w.hi) % Half, 0)
    ELSE Word((Half - 1 - w.hi) % Half, Half - w.lo)

RECURSIVE Pow2(_)
Pow2(k) == IF k = 0 THEN 1 ELSE 2 * Pow2(k - 1)

\* bit k (0..31) of a 32-bit word
BitAt(w, k) ==
    IF k < 16 THEN (w.lo \div Pow2(k)) % 2 ELSE (w.hi \div Pow2(k - 16)) % 2

\* 1 << i : the shift count is taken modulo 32
Shl1(i) ==
    LET k == i % 32
    IN  IF k < 16 THEN Word(0, Pow2(k)) ELSE Word(Pow2(k - 16), 0)

RECURSIVE Or16(_, _)
Or16(a, b) ==
    IF a = 0 THEN b
    ELSE IF b = 0 THEN a
    ELSE (IF a % 2 = 1 \/ b % 2 = 1 THEN 1 ELSE 0) + 2 * Or16(a \div 2, b \div 2)

\* a | b on 32-bit words
Or32(a, b) == Word(Or16(a.hi, b.hi), Or16(a.lo, b.lo))

Len0(arr) == Cardinality(DOMAIN arr)

(***************************************************************************)
(* Strings.  A character is a string of length 1.                          *)
(***************************************************************************)
CharAt(s, i) == SubSeq(s, i, i)
Digits36 == "0123456789abcdefghijklmnopqrstuvwxyz"
Upper36 == "0123456789ABCDEFGHIJKLMNOPQRSTUVWXYZ"

\* the value of a digit character, or -1 when it is no digit in any radix
DigitVal(c) ==
    IF \E i \in 1..36 : CharAt(Digits36, i) = c
    THEN (CHOOSE i \in 1..36 : CharAt(Digits36, i) = c) - 1
    ELSE IF \E i \in 1..36 : CharAt(Upper36, i) = c
    THEN (CHOOSE i \in 1..36 : CharAt(Upper36, i) = c) - 1
    ELSE -1

\* U+000B, which has no escape in a string here
VerticalTab == ""

\* U+00A0, U+1680 and U+FEFF
NoBreakSpace == " "
OghamSpaceMark == " "
ByteOrderMark == "﻿"

\* StrWhiteSpaceChar: the white space and line terminators parseInt skips.
\* Of these the space, tab, vertical tab, line feed, form feed, carriage
\* return, no-break space, Ogham space mark and byte order mark; a string
\* literal of TLA+ cannot hold U+2000 to U+200A, U+2028, U+2029, U+202F,
\* U+205F and U+3000, so no string here contains them
IsWhite(c) ==
    c \in {" ", "\t", VerticalTab, "\n", "\f", "\r",
          NoBreakSpace, OghamSpaceMark, ByteOrderMark}

\* String.prototype.split on a one-character separator
RECURSIVE SplitFrom(_, _, _)
SplitFrom(s, sep, cur) ==
    IF Len(s) = 0 THEN <<cur>>
    ELSE IF Head(s) = sep THEN <<cur>> \o SplitFrom(Tail(s), sep, "")
    ELSE SplitFrom(Tail(s), sep, cur \o Head(s))
Split(s, sep) == SplitFrom(s, sep, "")

\* Array.prototype.join
RECURSIVE Join(_, _)
Join(parts, sep) ==
    IF Len(parts) = 0 THEN ""
    ELSE IF Len(parts) = 1 THEN parts[1]
    ELSE parts[1] \o sep \o Join(Tail(parts), sep)

(***************************************************************************)
(* Number.prototype.toString(36) of a 32-bit integer: a '-' and the        *)
(* magnitude for a negative one.                                           *)
(***************************************************************************)
\* quotient and remainder of an unsigned 32-bit word by a small divisor
DivMod32(w, d) ==
    LET t == (w.hi % d) * Half + w.lo
    IN  [q |-> Word(w.hi \div d, t \div d), r |-> t % d]

RECURSIVE DigitsOf32(_, _)
DigitsOf32(w, radix) ==
    IF w = Zero32 THEN ""
    ELSE LET dm == DivMod32(w, radix)
         IN  DigitsOf32(dm.q, radix) \o CharAt(Digits36, dm.r + 1)

\* toString(36) with the sign of a negative word lost
ToString36NoSign(w) ==
    IF w = Zero32 THEN "0"
    ELSE IF IsNeg32(w) THEN DigitsOf32(Neg32(w), 36)
    ELSE DigitsOf32(w, 36)

ToString36(w) ==
    IF w = Zero32 THEN "0"
    ELSE IF IsNeg32(w) THEN "-" \o DigitsOf32(Neg32(w), 36)
    ELSE DigitsOf32(w, 36)

\* `${tempo}` : the decimal string of a number
RECURSIVE DigitsOfNat(_)
DigitsOfNat(n) ==
    IF n = 0 THEN "" ELSE DigitsOfNat(n \div 10) \o CharAt(Digits36, (n % 10) + 1)

NumToString(x) ==
    IF x.nan THEN "NaN"
    ELSE IF x.v = 0 THEN "0"
    ELSE IF x.v < 0 THEN "-" \o DigitsOfNat(-x.v)
    ELSE DigitsOfNat(x.v)

(***************************************************************************)
(* Doubles.  A JavaScript number is an IEEE 754 double: an operation       *)
(* returns the exact result rounded to 53 significant bits, ties to the    *)
(* even mantissa.  Exact values are kept as naturals of any size, written  *)
(* as their base-4096 digits, lowest first; a double m * 2^e is the record *)
(* [m, e] of a natural m and an integer e.  Only positive values arise.    *)
(***************************************************************************)
Limb == 64 * 64

RECURSIVE BigOf(_)
BigOf(n) == IF n = 0 THEN <<>> ELSE <<n % Limb>> \o BigOf(n \div Limb)

\* b * k + c, for k up to 2^16 and c below 2^27
RECURSIVE BigMulAdd(_, _, _)
BigMulAdd(b, k, c) ==
    IF Len(b) = 0 THEN BigOf(c)
    ELSE <<(Head(b) * k + c) % Limb>>
            \o BigMulAdd(Tail(b), k, (Head(b) * k + c) \div Limb)

LimbAt(b, j) == IF j >= 1 /\ j <= Len(b) THEN b[j] ELSE 0

\* bit i of b
BigBit(b, i) == (LimbAt(b, (i \div 12) + 1) \div Pow2(i % 12)) % 2

\* the number of bits of a digit d > 0
LimbBits(d) == CHOOSE k \in 1..12 : Pow2(k - 1) <= d /\ d < Pow2(k)

\* the number of bits of b whose highest digit that is not 0 is digit j
BitsFrom(b, j) == 12 * (j - 1) + LimbBits(b[j])

\* the number of bits of b: 0 for 0
BigBits(b) ==
    IF \A j \in 1..Len(b) : b[j] = 0 THEN 0
    ELSE BitsFrom(b, CHOOSE j \in 1..Len(b) :
                        b[j] # 0 /\ \A i \in (j + 1)..Len(b) : b[i] = 0)

\* b * 2^k
BigShl(b, k) ==
    BigMulAdd([j \in 1..(Len(b) + (k \div 12)) |->
                  IF j <= k \div 12 THEN 0 ELSE b[j - (k \div 12)]],
              Pow2(k % 12), 0)

\* floor(b / 2^k)
BigShr(b, k) ==
    [j \in 1..Len(b) |->
        (LimbAt(b, j + (k \div 12)) \div Pow2(k % 12))
            + (LimbAt(b, j + (k \div 12) + 1) % Pow2(k % 12)) * Pow2(12 - (k % 12))]

\* the k lowest bits of b are all 0
BigLowZero(b, k) ==
    /\ \A j \in 1..(k \div 12) : LimbAt(b, j) = 0
    /\ LimbAt(b, (k \div 12) + 1) % Pow2(k % 12) = 0

\* the value of a b below 2^31
RECURSIVE BigNat(_)
BigNat(b) == IF Len(b) = 0 THEN 0 ELSE Head(b) + Limb * BigNat(Tail(b))

\* floor(b / d) for a divisor d below 2^15, from the top digit down; rem is
\* the remainder carried in from above
RECURSIVE BigDiv(_, _, _)
BigDiv(b, d, rem) ==
    IF Len(b) = 0 THEN <<>>
    ELSE BigDiv(SubSeq(b, 1, Len(b) - 1), d, (rem * Limb + b[Len(b)]) % d)
            \o <<(rem * Limb + b[Len(b)]) \div d>>

RECURSIVE BigMod(_, _, _)
BigMod(b, d, rem) ==
    IF Len(b) = 0 THEN rem
    ELSE BigMod(SubSeq(b, 1, Len(b) - 1), d, (rem * Limb + b[Len(b)]) % d)

\* the k bits dropped from b round the kept ones up: more than half, or
\* half with an odd last kept bit; sticky says that b itself was cut from a
\* larger value
RoundsUp(b, k, sticky) ==
    /\ BigBit(b, k - 1) = 1
    /\ ~BigLowZero(b, k - 1) \/ sticky \/ BigBit(b, k) = 1

\* b * 2^e with the k lowest bits of b rounded away
RoundAway(b, e, k, sticky) ==
    [m |-> BigMulAdd(BigShr(b, k), 1, IF RoundsUp(b, k, sticky) THEN 1 ELSE 0),
     e |-> e + k]

\* the double nearest to b * 2^e
Round53(b, e, sticky) ==
    IF BigBits(b) <= 53 THEN [m |-> b, e |-> e]
    ELSE RoundAway(b, e, BigBits(b) - 53, sticky)

\* x * k for a double x and an integer k from 0 to 2^16
DblTimes(x, k) == Round53(BigMulAdd(x.m, k, 0), x.e, FALSE)

\* n / d for integers 0 < n and 0 < d < 2^15: the quotient is taken to 64
\* bits after the point, which leaves more than 53 to round
DblQuot(n, d) ==
    Round53(BigDiv(BigShl(BigOf(n), 64), d, 0), 0 - 64,
            BigMod(BigShl(BigOf(n), 64), d, 0) # 0)

\* x / 2^k and x * 2^k are exact
DblScale(x, k) == [m |-> x.m, e |-> x.e + k]

\* Math.floor and Math.ceil of a double below 2^31
DblFloor(x) ==
    IF x.e >= 0 THEN BigNat(BigShl(x.m, x.e)) ELSE BigNat(BigShr(x.m, 0 - x.e))
DblCeil(x) ==
    IF x.e >= 0 \/ BigLowZero(x.m, 0 - x.e) THEN DblFloor(x) ELSE DblFloor(x) + 1

\* an integer-valued double as a natural
DblInt(x) == BigShl(x.m, x.e)

\* the double nearest to the natural b, as a natural
FlInt(b) == DblInt(Round53(b, 0, FALSE))

\* ToInt32 of a natural, up to the sign: its 32 lowest bits
BigWord(b) ==
    Word((LimbAt(b, 2) \div 16) + (LimbAt(b, 3) % 256) * 256,
         LimbAt(b, 1) + (LimbAt(b, 2) % 16) * Limb)

(***************************************************************************)
(* parseInt(str, radix): leading white space is skipped, a sign is read,   *)
(* then the longest prefix of digits valid in the radix; with no such      *)
(* digit the result is NaN.  ParseIntDigits gives the sign and the digit   *)
(* values read; ParseInt gives the number (while it fits the 32-bit        *)
(* integers of TLC: up to nine decimal digits), and ParseInt32 gives the   *)
(* number's ToInt32 word, which is what >> reads.  The number is a double: *)
(* for a radix that is neither 10 nor a power of two the engine (V8, which *)
(* Node and Chrome run) reads the digits in parts whose multiplier fits 32 *)
(* bits, five digits at a time in base 36, and computes                    *)
(* value * multiplier + part in doubles, so that from eleven base-36       *)
(* digits on the number is rounded.                                        *)
(***************************************************************************)
RECURSIVE SkipWhite(_)
SkipWhite(s) == IF Len(s) > 0 /\ IsWhite(Head(s)) THEN SkipWhite(Tail(s)) ELSE s

RECURSIVE DigitPrefix(_, _)
DigitPrefix(s, radix) ==
    IF Len(s) = 0 THEN <<>>
    ELSE LET d == DigitVal(Head(s))
         IN  IF d >= 0 /\ d < radix THEN <<d>> \o DigitPrefix(Tail(s), radix)
             ELSE <<>>

\* the sign and the digits of a string with no leading white space
SignAndDigits(s0, radix) ==
    [neg |-> Len(s0) > 0 /\ Head(s0) = "-",
     digits |-> DigitPrefix(IF Len(s0) > 0 /\ (Head(s0) = "-" \/ Head(s0) = "+")
                            THEN Tail(s0) ELSE s0,
                            radix)]

ParseIntDigits(str, radix) == SignAndDigits(SkipWhite(str), radix)

RECURSIVE NatOf(_, _, _)
NatOf(digits, radix, acc) ==
    IF Len(digits) = 0 THEN acc
    ELSE NatOf(Tail(digits), radix, acc * radix + Head(digits))

\* the number of a sign and digits; NaN with no digit
NumberOf(p, radix) ==
    IF Len(p.digits) = 0 THEN NaN
    ELSE Num((IF p.neg THEN -1 ELSE 1) * NatOf(p.digits, radix, 0))

ParseInt(str, radix) == NumberOf(ParseIntDigits(str, radix), radix)

\* kMaximumMultiplier = 0xFFFFFFFF / 36
MaximumMultiplier == 119304647

\* how many digits one part takes: a digit is taken while
\* multiplier * radix <= kMaximumMultiplier
RECURSIVE PartLength(_, _)
PartLength(radix, multiplier) ==
    IF multiplier > MaximumMultiplier \div radix THEN 0
    ELSE 1 + PartLength(radix, multiplier * radix)

\* b * radix^n, exact
RECURSIVE BigTimesPower(_, _, _)
BigTimesPower(b, radix, n) ==
    IF n = 0 THEN b ELSE BigTimesPower(BigMulAdd(b, radix, 0), radix, n - 1)

\* value = value * multiplier + part, in doubles, for a part of n digits
AddPart(value, part, radix, n) ==
    FlInt(BigMulAdd(FlInt(BigTimesPower(value, radix, n)), 1, NatOf(part, radix, 0)))

Least(a, b) == IF a < b THEN a ELSE b

\* the integer-valued double the digits are read as, part by part
RECURSIVE DoubleOfParts(_, _, _, _)
DoubleOfParts(digits, radix, n, value) ==
    IF Len(digits) = 0 THEN value
    ELSE DoubleOfParts(SubSeq(digits, Least(n, Len(digits)) + 1, Len(digits)), radix, n,
                       AddPart(value, SubSeq(digits, 1, Least(n, Len(digits))), radix,
                               Least(n, Len(digits))))

\* the 32 lowest bits of the number the digits are read as
WordOf(digits, radix) ==
    BigWord(DoubleOfParts(digits, radix, PartLength(radix, 1), <<>>))

\* the 32-bit word of a magnitude with a sign
Signed32(neg, m) == IF neg THEN Neg32(m) ELSE m

\* ToInt32 of the number of a sign and digits; ToInt32(NaN) = 0
Int32Of(p, radix) ==
    IF Len(p.digits) = 0 THEN Zero32
    ELSE Signed32(p.neg, WordOf(p.digits, radix))

\* ToInt32(parseInt(str, radix))
ParseInt32(str, radix) == Int32Of(ParseIntDigits(str, radix), radix)

\* Math.max / Math.min: NaN if either argument is NaN
MathMin(a, b) == IF a.nan \/ b.nan THEN NaN ELSE IF a.v < b.v THEN a ELSE b
MathMax(a, b) == IF a.nan \/ b.nan THEN NaN ELSE IF a.v > b.v THEN a ELSE b

(***************************************************************************)
(* encodePattern(selected, tempo)                                          *)
(***************************************************************************)
RECURSIVE BitsLoop(_, _, _)
BitsLoop(row, i, bits) ==
    IF i >= Len0(row) THEN bits
    ELSE BitsLoop(row, i + 1, IF row[i] THEN Or32(bits, Shl1(i)) ELSE bits)

RowBits(row) == BitsLoop(row, 0, Zero32)

encodePattern(grid, bpm) ==
    LET rows == [r \in 1..Len0(grid) |-> ToString36(RowBits(grid[r - 1]))]
    IN  Join(rows, ".") \o "," \o NumToString(bpm)

(***************************************************************************)
(* decodePattern(str, nSteps, sampleCount)                                 *)
(***************************************************************************)
NullResult == [isNull |-> TRUE]

\* (bits >> i) & 1 === 1 for i in 0 .. nSteps-1
BitsRow(bits, nSteps) == [i \in 0..(nSteps - 1) |-> BitAt(bits, i % 32) = 1]

DecodeRow(rowStr, nSteps) == BitsRow(ParseInt32(rowStr, 36), nSteps)

\* the object decodePattern returns
Decoded(rows, tempoStr, nSteps) ==
    [isNull |-> FALSE,
     selected |-> [r \in 0..(Len(rows) - 1) |-> DecodeRow(rows[r + 1], nSteps)],
     tempo |-> MathMax(Num(MIN_TEMPO), MathMin(Num(MAX_TEMPO), ParseInt(tempoStr, 10)))]

\* if (rows.length !== sampleCount) return null
DecodeRows(rows, tempoStr, nSteps, sampleCount) ==
    IF Len(rows) # sampleCount THEN NullResult ELSE Decoded(rows, tempoStr, nSteps)

\* if (!rowsStr || !tempoStr) return null
DecodeSplit(rowsStr, tempoStr, nSteps, sampleCount) ==
    IF rowsStr = "" \/ tempoStr = "" THEN NullResult
    ELSE DecodeRows(Split(rowsStr, "."), tempoStr, nSteps, sampleCount)

\* const [rowsStr, tempoStr] = parts; destructuring a missing element gives
\* undefined, which is falsy
DecodeParts(parts, nSteps, sampleCount) ==
    DecodeSplit(parts[1], IF Len(parts) >= 2 THEN parts[2] ELSE "", nSteps, sampleCount)

\* decodePattern without its row-count check: any number of rows is the
\* number expected
decodePatternNoCount(str, nSteps, sampleCount) ==
    DecodeParts(Split(str, ","), nSteps, Len(Split(Split(str, ",")[1], ".")))

decodePattern(str, nSteps, sampleCount) ==
    DecodeParts(Split(str, ","), nSteps, sampleCount)

\* the codec variables while the component runs
CodecIdle ==
    /\ codecPc = "idle" /\ codecMode = "none" /\ argGrid = <<>> /\ argTempo = 0
    /\ argStr = "" /\ argRows = 0 /\ result = [isNull |-> TRUE]

\* the export variables while the component or the codec runs
MixIdle ==
    /\ mixPc = "idle" /\ mixSelected = <<>> /\ mixTempo = NaN /\ mixDecoded = <<>>
    /\ buffers = <<>> /\ totalSamples = NaN /\ outputLength = 0

(***************************************************************************)
(* The Beatmaker component.                                                *)
(*                                                                         *)
(* A world is a record of the component's state (the values its setters    *)
(* have come to, rendered or not), its refs and the browser state it       *)
(* touches.  The variable rendered holds the state of the last render      *)
(* React committed: handlers and effect bodies are closures of that        *)
(* render, refs and the browser state are read as they are.  A handler or  *)
(* callback maps a world to a world.  One commit renders the state and     *)
(* runs the effects whose dependencies changed (clean-ups first, then      *)
(* effect bodies in declaration order, the updates they queue applied in   *)
(* order); what the effects set is rendered by a later commit.  A user     *)
(* gesture is committed in its own task; the updates of a timer callback   *)
(* or of the continuation of an await are committed in a later task, so a  *)
(* gesture, another callback or the unmount can come between.              *)
(* Dependencies are compared by value.  The mounted flag is set together   *)
(* with initialized and is read as initialized.  Volume, hover, the        *)
(* delete dialog and the text of the share link touch none of the state    *)
(* modelled and are left out.                                              *)
(***************************************************************************)
Null == "null"
NoTimer == 0
NoColumn == 0 - 1
NoGrid == <<>>

defaultSamples ==
    [i \in 0..7 |->
        [name |-> <<"closed-hihat.mp3", "open-hihat.mp3", "snare.mp3",
                    "kick-drum.mp3", "chord.mp3", "percussion.mp3", "tom.mp3",
                    "water-drop.mp3">>[i + 1],
         isUserSample |-> FALSE]]

StepsOn(S, nSteps) == [i \in 0..(nSteps - 1) |-> i \in S]

\* the pattern getDefaultPattern builds when the default song does not decode
FallbackPattern(nSteps, sampleCount) ==
    LET steps == <<{0, 4, 8, 11, 14, 18, 20, 24, 27, 30}, {2, 16},
                   {4, 20, 25, 26, 28, 29, 30, 31}, {0, 6, 14, 20, 30},
                   {0, 4, 8, 11, 14, 18, 20, 24, 27, 30}, {8, 11, 14, 30},
                   {20}, {11, 27}>>
    IN  [r \in 0..(sampleCount - 1) |->
            StepsOn(IF r < 8 THEN steps[r + 1] ELSE {}, nSteps)]

\* if (decoded) return decoded.selected
PatternOr(decoded, nSteps, sampleCount) ==
    IF ~decoded.isNull THEN decoded.selected ELSE FallbackPattern(nSteps, sampleCount)

getDefaultPattern(nSteps, sampleCount) ==
    PatternOr(decodePattern(DEFAULT_SONG_STRING, nSteps, sampleCount), nSteps, sampleCount)

\* if (decoded) return decoded.tempo
TempoOr(decoded) == IF ~decoded.isNull THEN decoded.tempo ELSE Num(DEFAULT_TEMPO_BPM)

InitialTempo ==
    TempoOr(decodePattern(DEFAULT_SONG_STRING, DEFAULT_NUM_STEPS, Len0(defaultSamples)))

\* useState(() => getDefaultPattern(DEFAULT_NUM_STEPS, defaultSamples.length))
InitialPattern == getDefaultPattern(DEFAULT_NUM_STEPS, Len0(defaultSamples))

numSteps == DEFAULT_NUM_STEPS

\* Array.prototype.push / spread with one more element
Append0(arr, x) == [i \in 0..Len0(arr) |-> IF i < Len0(arr) THEN arr[i] ELSE x]
AllFalse(n) == [i \in 0..(n - 1) |-> FALSE]

\* the step interval: (60_000 / tempo) / 4, kept as a fraction
stepIntervalMs(t) ==
    IF t.nan THEN [nan |-> TRUE, num |-> 0, den |-> 1]
    ELSE [nan |-> FALSE, num |-> 60000, den |-> t.v * 4]

\* x + delta on numbers
NumAdd(x, d) == IF x.nan THEN NaN ELSE Num(x.v + d)

\* the tempo setters' clamp; every comparison with NaN is false
ClampStep(prev, delta) ==
    LET next == NumAdd(prev, delta)
    IN  IF ~next.nan /\ next.v < MIN_TEMPO THEN Num(MIN_TEMPO)
        ELSE IF ~next.nan /\ next.v > MAX_TEMPO THEN Num(MAX_TEMPO)
        ELSE next

ClampTempo(prev) ==
    IF ~prev.nan /\ prev.v < MIN_TEMPO THEN Num(MIN_TEMPO)
    ELSE IF ~prev.nan /\ prev.v > MAX_TEMPO THEN Num(MAX_TEMPO)
    ELSE prev

(***************************************************************************)
(* Timers and object URLs of the browser.                                  *)
(***************************************************************************)
TimerIds(w) ==
    {t.id : t \in w.timers}
        \cup {w.intervalRef, w.tempoChangeIntervalRef, w.tempoChangeTimeoutRef,
              w.flashTimeoutRef}

\* a timer id not in use; ids still held in a ref are not given out again
FreshTimerId(w) == CHOOSE n \in 1..(Cardinality(TimerIds(w)) + 1) : n \notin TimerIds(w)

\* clearInterval / clearTimeout
ClearTimer(w, id) == [w EXCEPT !.timers = {t \in @ : t.id # id}]

NewTimer(w, kind, ms, delta) ==
    [id |-> FreshTimerId(w), kind |-> kind, ms |-> ms, delta |-> delta, gone |-> FALSE]

UrlName(n) == "blob:" \o NumToString(Num(n))

\* URL.revokeObjectURL
Revoke(w, url) == [w EXCEPT !.revoked = @ \cup {url}]

(***************************************************************************)
(* playSound and the sounds of one column.                                 *)
(***************************************************************************)
\* the source of the Audio element playSound makes
SoundUrl(r, row) ==
    IF r.samples[row].isUserSample /\ r.userSampleUrl # Null THEN r.userSampleUrl
    ELSE "/audio/" \o r.samples[row].name

\* selected[rowIdx][step] as a condition: undefined, and so false, for a step
\* the row does not have
CellOn(grid, row, step) == step \in DOMAIN grid[row] /\ grid[row][step]

RECURSIVE PlayRows(_, _, _)
PlayRows(r, step, row) ==
    IF row >= Len0(r.samples) THEN <<>>
    ELSE (IF CellOn(r.selected, row, step)
          THEN <<[row |-> row, url |-> SoundUrl(r, row), by |-> "scheduler"]>>
          ELSE <<>>)
         \o PlayRows(r, step, row + 1)

\* samples.forEach((sample, rowIdx) => { if (selected[rowIdx][step]) playSound(...) })
PlaySelected(r, step) == PlayRows(r, step, 0)

(***************************************************************************)
(* The effects, in declaration order.                                      *)
(***************************************************************************)
NoStorage ==
    [has |-> FALSE, samples |-> defaultSamples, selected |-> NoGrid,
     tempo |-> "", userSampleUrl |-> Null]

\* the state set from localStorage
FromStorage(w, parsedTempo) ==
    [w EXCEPT !.samples = w.ls.samples,
              !.selected = w.ls.selected,
              !.tempo = IF ~parsedTempo.nan THEN parsedTempo ELSE @,
              !.userSampleUrl =
                  IF w.ls.userSampleUrl # Null THEN w.ls.userSampleUrl ELSE @]

\* the state set from the ?song= parameter
FromUrl(w, song, decoded) ==
    IF song # Null /\ song # "" /\ ~decoded.isNull
    THEN [w EXCEPT !.selected = decoded.selected, !.tempo = decoded.tempo]
    ELSE w

LoadInto(r, w, song) ==
    IF w.ls.has THEN FromStorage(w, ParseInt(w.ls.tempo, 10))
    ELSE FromUrl(w, song, decodePattern(song, numSteps, Len0(r.samples)))

\* the load effect: localStorage first, else the ?song= parameter
LoadEffect(r, w, song) ==
    IF r.initialized THEN w ELSE [LoadInto(r, w, song) EXCEPT !.initialized = TRUE]

\* the save effect
SaveEffect(r, w) ==
    [w EXCEPT !.ls = [has |-> TRUE, samples |-> r.samples, selected |-> r.selected,
                      tempo |-> NumToString(r.tempo),
                      userSampleUrl |-> r.userSampleUrl]]

\* the resize effect's updater
ResizeRow(row, n) ==
    [i \in 0..(n - 1) |-> IF i < Len0(row) THEN row[i] ELSE FALSE]

ResizePattern(prev, sampleCount, n) ==
    IF Len0(prev) = sampleCount /\ Len0(prev) > 0 /\ Len0(prev[0]) = n THEN prev
    ELSE [r \in 0..(sampleCount - 1) |->
            IF r < Len0(prev) THEN ResizeRow(prev[r], n) ELSE AllFalse(n)]

ResizeEffect(r, w) ==
    [w EXCEPT !.selected = ResizePattern(@, Len0(r.samples), numSteps)]

\* clearInterval(ref.current) / clearTimeout(ref.current) when the ref is set
ClearRef(w, ref) == IF w[ref] # NoTimer THEN ClearTimer(w, w[ref]) ELSE w

\* ... and ref.current = null
ClearAndNullRef(w, ref) ==
    IF w[ref] # NoTimer THEN [ClearTimer(w, w[ref]) EXCEPT ![ref] = NoTimer] ELSE w

\* a clean-up that leaves the interval running
TimerEffectCleanupNone(w) == w

\* the clean-up of the start/stop timer effect
TimerEffectCleanup(w) == ClearAndNullRef(w, "intervalRef")

\* intervalRef.current = setInterval(tick, stepIntervalMs)
SetStepInterval(w, t) == [w EXCEPT !.timers = @ \cup {t}, !.intervalRef = t.id]
StartStepInterval(r, w) ==
    SetStepInterval(w, NewTimer(w, "step", stepIntervalMs(r.tempo), 0))

\* the start/stop timer effect with a playing scheduler that sets no timer
TimerEffectNoRestart(r, w) == TimerEffectCleanup(w)

\* the start/stop timer effect
TimerEffect(r, w) ==
    IF r.isPlaying THEN StartStepInterval(r, TimerEffectCleanup(w))
    ELSE TimerEffectCleanup(w)

\* the play-at-current-step effect
PlayEffect(r, w) ==
    IF ~r.isPlaying THEN w
    ELSE [w EXCEPT !.played = @ \o PlaySelected(r, r.currentStep)]

\* URL.revokeObjectURL(url) when url is set
RevokeIfSet(w, url) == IF url # Null THEN Revoke(w, url) ELSE w

\* the clean-up without the release of the uploaded sample's URL
CleanupEffectDestroyKeepsSample(old, w) ==
    RevokeIfSet(
        ClearRef(
            ClearRef(ClearRef(ClearRef(w, "intervalRef"), "tempoChangeIntervalRef"),
                     "tempoChangeTimeoutRef"),
            "flashTimeoutRef"),
        old.exportUrl)

\* the clean-up of the effect keyed on userSampleUrl and exportUrl; old is
\* the render that effect was made in
CleanupEffectDestroy(old, w) ==
    RevokeIfSet(
        RevokeIfSet(
            ClearRef(
                ClearRef(ClearRef(ClearRef(w, "intervalRef"), "tempoChangeIntervalRef"),
                         "tempoChangeTimeoutRef"),
                "flashTimeoutRef"),
            old.userSampleUrl),
        old.exportUrl)

\* the clamp effect
ClampEffect(r, w) == [w EXCEPT !.tempo = ClampTempo(@)]

(***************************************************************************)
(* One commit: prev is the render before, cur the world being rendered.    *)
(***************************************************************************)
\* the React state of a world: what a render of it sees
ReactState(w) ==
    [initialized |-> w.initialized, samples |-> w.samples,
     userSampleUrl |-> w.userSampleUrl, selected |-> w.selected, tempo |-> w.tempo,
     currentStep |-> w.currentStep, isPlaying |-> w.isPlaying,
     showExportModal |-> w.showExportModal, exporting |-> w.exporting,
     exportError |-> w.exportError, exportUrl |-> w.exportUrl,
     uploadError |-> w.uploadError, flashedColumn |-> w.flashedColumn,
     showShareModal |-> w.showShareModal, copied |-> w.copied]

\* the dependency lists, compared between two renders
DepsLoad(prev, cur) ==
    prev.initialized # cur.initialized \/ Len0(prev.samples) # Len0(cur.samples)
DepsSave(prev, cur) ==
    \/ prev.selected # cur.selected \/ prev.tempo # cur.tempo
    \/ prev.samples # cur.samples \/ prev.userSampleUrl # cur.userSampleUrl
DepsResize(prev, cur) == Len0(prev.samples) # Len0(cur.samples)
DepsTimer(prev, cur) ==
    \/ prev.isPlaying # cur.isPlaying
    \/ stepIntervalMs(prev.tempo) # stepIntervalMs(cur.tempo)
DepsPlay(prev, cur) ==
    \/ prev.currentStep # cur.currentStep \/ prev.isPlaying # cur.isPlaying
    \/ prev.samples # cur.samples \/ prev.selected # cur.selected
    \/ prev.userSampleUrl # cur.userSampleUrl
DepsCleanup(prev, cur) ==
    prev.userSampleUrl # cur.userSampleUrl \/ prev.exportUrl # cur.exportUrl
DepsClamp(prev, cur) == prev.tempo # cur.tempo

\* the clean-ups of the effects that run again
RunCleanups(prev, cur) ==
    LET c1 == IF DepsTimer(prev, cur) THEN TimerEffectCleanup(cur) ELSE cur
    IN  IF DepsCleanup(prev, cur) THEN CleanupEffectDestroy(prev, c1) ELSE c1

\* one effect body, run when it is due
RunLoad(due, r, w, song) == IF due THEN LoadEffect(r, w, song) ELSE w
RunSave(due, r, w) == IF due THEN SaveEffect(r, w) ELSE w
RunResize(due, r, w) == IF due THEN ResizeEffect(r, w) ELSE w
RunTimer(due, r, w) == IF due THEN TimerEffect(r, w) ELSE w
RunPlay(due, r, w) == IF due THEN PlayEffect(r, w) ELSE w
RunClamp(due, r, w) == IF due THEN ClampEffect(r, w) ELSE w

\* clean-ups, then the effect bodies in declaration order
Pass(prev, cur, first, song) ==
    RunClamp(first \/ DepsClamp(prev, cur), cur,
      RunPlay(first \/ DepsPlay(prev, cur), cur,
        RunTimer(first \/ DepsTimer(prev, cur), cur,
          RunResize(first \/ DepsResize(prev, cur), cur,
            RunSave(first \/ DepsSave(prev, cur), cur,
              RunLoad(first \/ DepsLoad(prev, cur), cur,
                      IF first THEN cur ELSE RunCleanups(prev, cur), song))))))

\* while mounted is false the render returns null; after that the grid's JSX
\* reads selected[rowIdx][stepIdx] for every rowIdx of samples: a sample with
\* no grid row makes the render throw a TypeError
RenderThrows(w) ==
    w.initialized /\ \E r \in DOMAIN w.samples : r \notin DOMAIN w.selected

\* what is left running when the component is gone: the timers no clean-up
\* cleared, and the handleExportWav call that awaits
Abandon(w) ==
    [w EXCEPT !.timers = {[t EXCEPT !.gone = TRUE] : t \in @},
              !.abandoned = IF w.exportJob.active THEN @ + 1 ELSE @,
              !.exportJob = [active |-> FALSE]]

\* with no error boundary React unmounts the component: the effects of the
\* last commit prev run their clean-ups; the state is left as it was given
\* to the render that threw
RenderCrash(prev, w) ==
    [Abandon(CleanupEffectDestroy(prev, TimerEffectCleanup(w))) EXCEPT
        !.renderError = TRUE]

\* the render of the world w and the effects of that commit
Commit(prev, w, first, song) ==
    IF RenderThrows(w) THEN RenderCrash(prev, w) ELSE Pass(prev, w, first, song)

\* the render the handlers and effects are closures of after that commit
Committed(prev, w) == IF RenderThrows(w) THEN prev ELSE ReactState(w)

(***************************************************************************)
(* The world held in the variables.                                        *)
(***************************************************************************)
Cur ==
    [initialized |-> initialized, samples |-> samples,
     userSampleUrl |-> userSampleUrl, selected |-> selected, tempo |-> tempo,
     currentStep |-> currentStep, isPlaying |-> isPlaying,
     showExportModal |-> showExportModal, exporting |-> exporting,
     exportError |-> exportError, exportUrl |-> exportUrl,
     uploadError |-> uploadError, flashedColumn |-> flashedColumn,
     showShareModal |-> showShareModal, copied |-> copied,
     renderError |-> renderError,
     flashTimeoutRef |-> flashTimeoutRef, intervalRef |-> intervalRef,
     tempoChangeIntervalRef |-> tempoChangeIntervalRef,
     tempoChangeTimeoutRef |-> tempoChangeTimeoutRef,
     tempoChangeActiveRef |-> tempoChangeActiveRef, timers |-> timers,
     ls |-> ls, revoked |-> revoked, nextUrl |-> nextUrl,
     exportJob |-> exportJob, abandoned |-> abandoned, played |-> <<>>]

Becomes(w) ==
    /\ initialized' = w.initialized
    /\ samples' = w.samples
    /\ userSampleUrl' = w.userSampleUrl
    /\ selected' = w.selected
    /\ tempo' = w.tempo
    /\ currentStep' = w.currentStep
    /\ isPlaying' = w.isPlaying
    /\ showExportModal' = w.showExportModal
    /\ exporting' = w.exporting
    /\ exportError' = w.exportError
    /\ exportUrl' = w.exportUrl
    /\ uploadError' = w.uploadError
    /\ flashedColumn' = w.flashedColumn
    /\ showShareModal' = w.showShareModal
    /\ copied' = w.copied
    /\ renderError' = w.renderError
    /\ flashTimeoutRef' = w.flashTimeoutRef
    /\ intervalRef' = w.intervalRef
    /\ tempoChangeIntervalRef' = w.tempoChangeIntervalRef
    /\ tempoChangeTimeoutRef' = w.tempoChangeTimeoutRef
    /\ tempoChangeActiveRef' = w.tempoChangeActiveRef
    /\ timers' = w.timers
    /\ ls' = w.ls
    /\ revoked' = w.revoked
    /\ nextUrl' = w.nextUrl
    /\ exportJob' = w.exportJob
    /\ abandoned' = w.abandoned
    /\ played' = w.played

Holds(w) ==
    /\ initialized = w.initialized
    /\ samples = w.samples
    /\ userSampleUrl = w.userSampleUrl
    /\ selected = w.selected
    /\ tempo = w.tempo
    /\ currentStep = w.currentStep
    /\ isPlaying = w.isPlaying
    /\ showExportModal = w.showExportModal
    /\ exporting = w.exporting
    /\ exportError = w.exportError
    /\ exportUrl = w.exportUrl
    /\ uploadError = w.uploadError
    /\ flashedColumn = w.flashedColumn
    /\ showShareModal = w.showShareModal
    /\ copied = w.copied
    /\ renderError = w.renderError
    /\ flashTimeoutRef = w.flashTimeoutRef
    /\ intervalRef = w.intervalRef
    /\ tempoChangeIntervalRef = w.tempoChangeIntervalRef
    /\ tempoChangeTimeoutRef = w.tempoChangeTimeoutRef
    /\ tempoChangeActiveRef = w.tempoChangeActiveRef
    /\ timers = w.timers
    /\ ls = w.ls
    /\ revoked = w.revoked
    /\ nextUrl = w.nextUrl
    /\ exportJob = w.exportJob
    /\ abandoned = w.abandoned
    /\ played = w.played

NoJob == [active |-> FALSE]

\* the component before its first render's effects: the useState initial values
FreshComponent(storage, gone, urls) ==
    [initialized |-> FALSE, samples |-> defaultSamples, userSampleUrl |-> Null,
     selected |-> InitialPattern,
     tempo |-> InitialTempo, currentStep |-> 0, isPlaying |-> FALSE,
     showExportModal |-> FALSE, exporting |-> FALSE, exportError |-> Null,
     exportUrl |-> Null, uploadError |-> Null, flashedColumn |-> NoColumn,
     showShareModal |-> FALSE, copied |-> FALSE,
     renderError |-> FALSE,
     flashTimeoutRef |-> NoTimer, intervalRef |-> NoTimer,
     tempoChangeIntervalRef |-> NoTimer, tempoChangeTimeoutRef |-> NoTimer,
     tempoChangeActiveRef |-> FALSE, timers |-> {}, ls |-> storage,
     revoked |-> gone, nextUrl |-> urls, exportJob |-> NoJob, abandoned |-> 0,
     played |-> <<>>]

(***************************************************************************)
(* Bounds of the exploration and the inputs tried.                         *)
(***************************************************************************)
MaxEvents == 4        \* user gestures and tempo repeats in one run
MaxUrls == 2          \* object URLs created in one run
MaxQueued == 1        \* callbacks that set state before React renders

\* the ?song= parameter of a page load; Null when the URL has none
EightRows(first, rest) == Join([i \in 1..8 |-> IF i = 1 THEN first ELSE rest], ".")
SongInputs ==
    {Null,
     EightRows("-zik0zj", "0") \o ",300",
     EightRows("1", "0") \o ",abc",
     EightRows("1", "!") \o ",61",
     "1.0,120"}

\* the column headers the user clicks
ColumnChoices == {0, 31}

\* the cells the user toggles
ToggleCells == {<<3, 0>>, <<8, 31>>}

\* e.target.files?.[0] of a change event with no file
NoFile == "no file"

UploadTypes == {NoFile, "audio/mpeg", "audio/wav"}

\* the row labels the user clicks
LabelChoices == {0, 8}

CompInit ==
    /\ phase = "unmounted"
    /\ Holds(FreshComponent(NoStorage, {}, 0))
    /\ rendered = ReactState(FreshComponent(NoStorage, {}, 0))
    /\ queued = <<>>
    /\ uploaded = {}
    /\ lastAction = "none"
    /\ prevStep = 0
    /\ prevTempo = InitialTempo
    /\ events = 0
    /\ urlSong = Null
    /\ prevPress = "none"
    /\ pressTempo = NaN

(***************************************************************************)
(* The handlers and callbacks, as maps from the world w to the world they   *)
(* leave; r is the render a handler is a closure of.                       *)
(***************************************************************************)
\* handleStart without the reset of the cursor
handleStartNoReset(w) == [w EXCEPT !.isPlaying = TRUE]

handleStart(w) == [w EXCEPT !.currentStep = 0, !.isPlaying = TRUE]

handleStop(w) == [w EXCEPT !.isPlaying = FALSE]

handlePlayToggle(r, w) == IF r.isPlaying THEN handleStop(w) ELSE handleStart(w)

\* the callback without the wrap at the last step
stepTickNoWrap(w) == [w EXCEPT !.currentStep = @ + 1]

\* the playback interval's callback
stepTick(w) == [w EXCEPT !.currentStep = (@ + 1) % numSteps]

toggleStep(w, rowIdx, stepIdx) ==
    [w EXCEPT !.selected[rowIdx][stepIdx] = ~@]

handleDeleteAll(r, w) ==
    [w EXCEPT !.selected = [i \in 0..(Len0(r.samples) - 1) |-> AllFalse(numSteps)]]

Ms(n) == [nan |-> FALSE, num |-> n, den |-> 1]

\* ref.current = setTimeout / setInterval(...)
SetTimerRef(w, ref, t) == [w EXCEPT ![ref] = t.id, !.timers = @ \cup {t}]

startTempoChange(w, delta) ==
    SetTimerRef([w EXCEPT !.tempoChangeActiveRef = FALSE], "tempoChangeTimeoutRef",
                NewTimer(w, "hold", Ms(200), delta))

\* the hold timeout's callback; a timeout that fired is no longer pending
holdTimeout(w, t) ==
    SetTimerRef([w EXCEPT !.tempoChangeActiveRef = TRUE, !.timers = @ \ {t}],
                "tempoChangeIntervalRef",
                NewTimer(w, "repeat", Ms(45), t.delta))

\* the repeat interval's callback
repeatTick(w, t) == [w EXCEPT !.tempo = ClampStep(@, t.delta)]

\* a single change also after a long press
SingleChangeAlways(w, delta, doSingle) ==
    [w EXCEPT !.tempo = IF doSingle THEN ClampStep(@, delta) ELSE @,
              !.tempoChangeActiveRef = FALSE]

\* if (!tempoChangeActiveRef.current && doSingle) setTempo(...); then the
\* active flag is reset
SingleChange(w, delta, doSingle) ==
    [w EXCEPT !.tempo = IF ~w.tempoChangeActiveRef /\ doSingle
                        THEN ClampStep(@, delta) ELSE @,
              !.tempoChangeActiveRef = FALSE]

stopTempoChange(w, delta, doSingle) ==
    SingleChange(
        ClearAndNullRef(ClearAndNullRef(w, "tempoChangeTimeoutRef"),
                        "tempoChangeIntervalRef"),
        delta, doSingle)

handleTempoButtonKeyDown(w, delta) == [w EXCEPT !.tempo = ClampStep(@, delta)]

UserFileName(n) == "user" \o NumToString(Num(n)) \o ".mp3"

\* the accepted branch of handleFileChange, after the old URL's release
AddUserSample(w, n) ==
    [w EXCEPT !.nextUrl = n,
              !.userSampleUrl = UrlName(n),
              !.samples = Append0(@, [name |-> UserFileName(n), isUserSample |-> TRUE]),
              !.selected = Append0(@, AllFalse(numSteps))]

\* handleFileChange that releases the held URL before it looks at the type
handleFileChangeRevokesFirst(r, w, fileType) ==
    IF fileType = NoFile THEN [w EXCEPT !.uploadError = Null]
    ELSE IF fileType # "audio/mp3" /\ fileType # "audio/mpeg"
    THEN RevokeIfSet([w EXCEPT !.uploadError = "Only MP3 files are supported."],
                     r.userSampleUrl)
    ELSE AddUserSample(RevokeIfSet([w EXCEPT !.uploadError = Null], r.userSampleUrl),
                       w.nextUrl + 1)

handleFileChange(r, w, fileType) ==
    IF fileType = NoFile THEN [w EXCEPT !.uploadError = Null]
    ELSE IF fileType # "audio/mp3" /\ fileType # "audio/mpeg"
    THEN [w EXCEPT !.uploadError = "Only MP3 files are supported."]
    ELSE AddUserSample(RevokeIfSet([w EXCEPT !.uploadError = Null], r.userSampleUrl),
                       w.nextUrl + 1)

\* handleAddSampleClick; the file dialog it opens answers with a change event
handleAddSampleClick(w) == [w EXCEPT !.uploadError = Null]

\* a click, or Enter or space, on a row's label: playSound of that row
playLabel(r, w, row) ==
    [w EXCEPT !.played = @ \o <<[row |-> row, url |-> SoundUrl(r, row), by |-> "label"]>>]

\* the sounds of a column header click
ByColumn(sounds) == [i \in 1..Len(sounds) |-> [sounds[i] EXCEPT !.by = "column"]]

\* playColumn that also moves the scheduler's cursor to the column
playColumnMovesCursor(r, w, stepIdx) ==
    SetTimerRef([ClearRef(w, "flashTimeoutRef") EXCEPT
                    !.played = @ \o ByColumn(PlaySelected(r, stepIdx)),
                    !.flashedColumn = stepIdx,
                    !.currentStep = stepIdx],
                "flashTimeoutRef", NewTimer(w, "flash", Ms(200), 0))

playColumn(r, w, stepIdx) ==
    SetTimerRef([ClearRef(w, "flashTimeoutRef") EXCEPT
                    !.played = @ \o ByColumn(PlaySelected(r, stepIdx)),
                    !.flashedColumn = stepIdx],
                "flashTimeoutRef", NewTimer(w, "flash", Ms(200), 0))

\* the flash timeout's callback; a timeout that fired is no longer pending
flashTimeout(w, t) == [w EXCEPT !.flashedColumn = NoColumn, !.timers = @ \ {t}]

handleExport(w) ==
    [w EXCEPT !.exportError = Null, !.exportUrl = Null, !.showExportModal = TRUE]

closeExport(w) == [w EXCEPT !.showExportModal = FALSE]

\* handleShare: the link is made of the rendered grid and tempo, and is never
\* empty
handleShare(w) == [w EXCEPT !.showShareModal = TRUE]

\* handleCopy and handleInputClick: the timeout is held by no ref
handleCopy(w) ==
    [w EXCEPT !.copied = TRUE, !.timers = @ \cup {NewTimer(w, "copy", Ms(1200), 0)}]

\* the copy timeout's callback; a timeout that fired is no longer pending
copyTimeout(w, t) == [w EXCEPT !.copied = FALSE, !.timers = @ \ {t}]

\* a timeout of a component that is gone fires: its setters do nothing, and
\* the hold timeout starts a repeat interval that nothing clears
goneTimeout(w, t) ==
    [w EXCEPT !.timers =
        IF t.kind = "hold"
        THEN (@ \ {t}) \cup {[NewTimer(w, "repeat", Ms(45), t.delta) EXCEPT !.gone = TRUE]}
        ELSE @ \ {t}]

\* a handleExportWav call of a component that is gone runs to its end: the
\* object URL is made, the setters do nothing
abandonedDone(w, ok) ==
    [w EXCEPT !.abandoned = @ - 1, !.nextUrl = IF ok THEN @ + 1 ELSE @]

AnySelected(grid) ==
    \E r \in DOMAIN grid : \E i \in DOMAIN grid[r] : grid[r][i]

\* the end of handleExportWav with a catch branch that leaves the flag set
exportDoneStaysBusy(w, ok) ==
    IF ok
    THEN [w EXCEPT !.nextUrl = @ + 1, !.exportUrl = UrlName(w.nextUrl + 1),
                   !.exporting = FALSE, !.exportJob = NoJob]
    ELSE [w EXCEPT !.exportError = "Failed to export WAV. Try again.",
                   !.exportJob = NoJob]

\* the end of handleExportWav: the WAV's object URL, or the catch branch
exportDone(w, ok) ==
    IF ok
    THEN [w EXCEPT !.nextUrl = @ + 1, !.exportUrl = UrlName(w.nextUrl + 1),
                   !.exporting = FALSE, !.exportJob = NoJob]
    ELSE [w EXCEPT !.exportError = "Failed to export WAV. Try again.",
                   !.exporting = FALSE, !.exportJob = NoJob]

\* handleExportWav after its first three setters
ExportWavBody(r, w, hasAudioContext) ==
    IF ~hasAudioContext
    THEN [w EXCEPT !.exportError = "AudioContext is not supported in this browser.",
                   !.exporting = FALSE]
    ELSE IF ~AnySelected(r.selected) THEN exportDone(w, TRUE)
    ELSE [w EXCEPT !.exportJob =
              [active |-> TRUE, samples |-> r.samples, selected |-> r.selected,
               tempo |-> r.tempo, userSampleUrl |-> r.userSampleUrl]]

\* handleExportWav up to its first await; with no row to load there is none
handleExportWav(r, w, hasAudioContext) ==
    ExportWavBody(r, [w EXCEPT !.exporting = TRUE, !.exportError = Null,
                               !.exportUrl = Null],
                  hasAudioContext)

\* unmount: every effect's clean-up, made in the render r
teardown(r, w) == CleanupEffectDestroy(r, TimerEffectCleanup(w))

\* the first render, which returns null, and its effects
FirstCommit(w0, song) == Pass(ReactState(w0), w0, TRUE, song)

\* the component a page load makes, beside what components before it left
NewComponent(w) ==
    [FreshComponent(w.ls, w.revoked, w.nextUrl) EXCEPT
        !.timers = w.timers, !.abandoned = w.abandoned]

\* what is left of a world once the component is gone
Unmounted(w) == NewComponent(Abandon(w))

(***************************************************************************)
(* Actions.                                                                *)
(***************************************************************************)
\* the component is on the page
Alive == phase = "mounted" /\ ~renderError

\* its controls are on the page: a render with mounted set was committed
Shown == Alive /\ rendered.initialized

Ready == Shown /\ events < MaxEvents

\* the pending tempo timers of the mounted component
TempoTimers == {t \in timers : t.kind \in {"hold", "repeat"} /\ ~t.gone}

\* a press whose hold delay has not elapsed: its timeout is the one timer
PressPending ==
    /\ ~tempoChangeActiveRef
    /\ Cardinality(TempoTimers) = 1
    /\ \A t \in TempoTimers : t.kind = "hold" /\ t.id = tempoChangeTimeoutRef

\* a press whose hold delay has elapsed: its repeat interval is the one timer
Repeating ==
    /\ tempoChangeActiveRef
    /\ Cardinality(TempoTimers) = 1
    /\ \A t \in TempoTimers : t.kind = "repeat" /\ t.id = tempoChangeIntervalRef

PressState ==
    IF PressPending THEN "pending"
    ELSE IF Repeating THEN "repeating"
    ELSE IF TempoTimers = {} THEN "none"
    ELSE "other"

Observe(name) ==
    /\ lastAction' = name
    /\ prevStep' = currentStep
    /\ prevTempo' = tempo
    /\ urlSong' = IF name = "Render" THEN urlSong ELSE Null
    /\ prevPress' = IF name \in {"TempoRelease", "TempoLeave"} THEN PressState ELSE "none"
    /\ pressTempo' = IF name = "TempoPress" THEN tempo
                     ELSE IF name = "HoldTimeout" THEN pressTempo ELSE NaN
    /\ uploaded' = IF name = "Upload" THEN uploaded \cup {UrlName(nextUrl + 1)}
                   ELSE uploaded

\* a user gesture whose handler calls a setter: the handler's result w is
\* rendered and its effects run before the next task
Event(name, w) ==
    /\ Becomes(Commit(rendered, w, FALSE, Null))
    /\ rendered' = Committed(rendered, w)
    /\ queued' = <<>>
    /\ Observe(name)
    /\ events' = events + 1
    /\ UNCHANGED <<phase, codecVars>>

\* a user gesture whose handler calls no setter: React renders nothing, and
\* what callbacks have set stays pending until a later render
Handler(name, w) ==
    /\ Becomes(w)
    /\ Observe(name)
    /\ events' = events + 1
    /\ UNCHANGED <<rendered, queued, phase, codecVars>>

\* a timer callback or the continuation of an await: what it sets is left
\* for a later render
Callback(name, w) ==
    /\ Becomes(w)
    /\ queued' = IF ReactState(w) # ReactState(Cur) THEN Append(queued, name) ELSE queued
    /\ Observe(name)
    /\ UNCHANGED <<rendered, phase, codecVars>>

\* a callback that sets state runs before React has rendered the last ones
CanQueue == Alive /\ Len(queued) < MaxQueued

\* a page load: the first, one after the component was taken down, or a
\* reload of a page whose render threw; the first render and its effects
Mount ==
    /\ phase = "unmounted" \/ renderError
    /\ events < MaxEvents
    /\ \E song \in SongInputs :
          /\ Becomes(FirstCommit(NewComponent(Cur), song))
          /\ urlSong' = song
    /\ rendered' = ReactState(NewComponent(Cur))
    /\ queued' = <<>>
    /\ prevPress' = "none"
    /\ pressTempo' = NaN
    /\ phase' = "mounted"
    /\ lastAction' = "Mount"
    /\ prevStep' = 0
    /\ prevTempo' = InitialTempo
    /\ events' = events + 1
    /\ UNCHANGED <<uploaded, codecVars>>

\* the component is taken off the page: what was set and not rendered is lost
Teardown ==
    /\ Alive
    /\ events < MaxEvents
    /\ Becomes(Unmounted(teardown(rendered, Cur)))
    /\ rendered' = ReactState(NewComponent(Cur))
    /\ queued' = <<>>
    /\ phase' = "unmounted"
    /\ lastAction' = "Teardown"
    /\ urlSong' = Null
    /\ prevPress' = "none"
    /\ pressTempo' = NaN
    /\ prevStep' = 0
    /\ prevTempo' = InitialTempo
    /\ events' = events + 1
    /\ UNCHANGED <<uploaded, codecVars>>

\* what a render is named after: the callbacks whose updates it renders
RenderName(q) == IF Len(q) = 0 THEN "Render" ELSE "Render:" \o Join(q, "+")

\* React renders what callbacks and effects have set since the last commit
Render ==
    /\ Alive
    /\ ReactState(Cur) # rendered
    /\ Becomes(Commit(rendered, Cur, FALSE, Null))
    /\ rendered' = Committed(rendered, Cur)
    /\ queued' = <<>>
    /\ Observe(RenderName(queued))
    /\ UNCHANGED <<phase, events, codecVars>>

PlayToggle ==
    /\ Ready
    /\ Event(IF rendered.isPlaying THEN "Stop" ELSE "Start", handlePlayToggle(rendered, Cur))

Tick ==
    /\ CanQueue
    /\ \E t \in timers : t.kind = "step" /\ ~t.gone
    /\ Callback("Tick", stepTick(Cur))
    /\ UNCHANGED events

ToggleStep ==
    /\ Ready
    /\ \E c \in ToggleCells :
          /\ c[1] < Len0(rendered.samples)
          /\ Event("Toggle", toggleStep(Cur, c[1], c[2]))

DeleteAll == Ready /\ Event("DeleteAll", handleDeleteAll(rendered, Cur))

\* mouse down and touch start: refs and a timer only
TempoPress == Ready /\ \E d \in {-1, 1} : Handler("TempoPress", startTempoChange(Cur, d))

HoldTimeout ==
    /\ Alive
    /\ \E t \in timers :
          /\ t.kind = "hold" /\ ~t.gone
          /\ Callback("HoldTimeout", holdTimeout(Cur, t))
    /\ UNCHANGED events

\* a tick of the repeat interval; the repeats of one run are counted with the
\* gestures, which bounds how far a held button takes the tempo
RepeatTick ==
    /\ CanQueue
    /\ events < MaxEvents
    /\ \E t \in timers :
          /\ t.kind = "repeat" /\ ~t.gone
          /\ Callback("RepeatTick", repeatTick(Cur, t))
    /\ events' = events + 1

\* mouse up and touch end: setTempo is called only for the single change of a
\* short press
TempoRelease ==
    /\ Ready
    /\ \E d \in {-1, 1} :
          IF tempoChangeActiveRef
          THEN Handler("TempoRelease", stopTempoChange(Cur, d, TRUE))
          ELSE Event("TempoRelease", stopTempoChange(Cur, d, TRUE))

\* mouse leave: no single change, so no setter is called
TempoLeave == Ready /\ \E d \in {-1, 1} : Handler("TempoLeave", stopTempoChange(Cur, d, FALSE))

TempoKey == Ready /\ \E d \in {-1, 1} : Event("TempoKey", handleTempoButtonKeyDown(Cur, d))

AddSampleClick == Ready /\ Event("AddSampleClick", handleAddSampleClick(Cur))

\* a change event of the file input: no file, an MP3, or a file of another type
Upload ==
    /\ Ready
    /\ \E ty \in UploadTypes :
          /\ (ty = "audio/mpeg") => nextUrl < MaxUrls
          /\ Event(IF ty = "audio/mpeg" THEN "Upload"
                   ELSE IF ty = NoFile THEN "UploadNoFile" ELSE "UploadRejected",
                   handleFileChange(rendered, Cur, ty))

\* a click on a row's label: playSound only
PlayLabel ==
    /\ Ready
    /\ \E row \in LabelChoices \cap DOMAIN rendered.samples :
          Handler("PlayLabel", playLabel(rendered, Cur, row))

PlayColumn ==
    /\ Ready
    /\ \E c \in ColumnChoices : Event("PlayColumn", playColumn(rendered, Cur, c))

FlashTimeout ==
    /\ CanQueue
    /\ \E t \in timers :
          /\ t.kind = "flash" /\ ~t.gone
          /\ Callback("FlashTimeout", flashTimeout(Cur, t))
    /\ UNCHANGED events

OpenExport == Ready /\ Event("OpenExport", handleExport(Cur))

CloseExport == Ready /\ rendered.showExportModal /\ Event("CloseExport", closeExport(Cur))

\* the Download WAV button, disabled while exporting
ExportWav ==
    /\ Ready
    /\ rendered.showExportModal
    /\ ~rendered.exporting
    /\ \E ac \in BOOLEAN :
          /\ (ac /\ ~AnySelected(rendered.selected)) => nextUrl < MaxUrls
          /\ Event("ExportWav", handleExportWav(rendered, Cur, ac))

\* the awaited samples arrive, or loading one fails
ExportFinish ==
    /\ CanQueue
    /\ exportJob.active
    /\ \E ok \in BOOLEAN :
          /\ ok => nextUrl < MaxUrls
          /\ Callback(IF ok THEN "ExportFinish" ELSE "ExportFailed", exportDone(Cur, ok))
    /\ UNCHANGED events

OpenShare == Ready /\ Event("OpenShare", handleShare(Cur))

CloseShare == Ready /\ rendered.showShareModal /\ Event("CloseShare", [Cur EXCEPT !.showShareModal = FALSE])

\* the Copy Link button and a click on the link's input
Copy == Ready /\ rendered.showShareModal /\ Event("Copy", handleCopy(Cur))

CopyTimeout ==
    /\ CanQueue
    /\ \E t \in timers :
          /\ t.kind = "copy" /\ ~t.gone
          /\ Callback("CopyTimeout", copyTimeout(Cur, t))
    /\ UNCHANGED events

\* a timeout of a component that is gone fires; an interval of such a
\* component fires too, with no effect at all
GoneTimeout ==
    /\ \E t \in timers :
          /\ t.gone /\ t.kind \in {"hold", "flash", "copy"}
          /\ Becomes(goneTimeout(Cur, t))
    /\ Observe("GoneTimeout")
    /\ UNCHANGED <<rendered, queued, phase, events, codecVars>>

\* the samples awaited by a component that is gone arrive, or one fails
AbandonedFinish ==
    /\ abandoned > 0
    /\ \E ok \in BOOLEAN :
          /\ ok => nextUrl < MaxUrls
          /\ Becomes(abandonedDone(Cur, ok))
    /\ Observe("AbandonedFinish")
    /\ UNCHANGED <<rendered, queued, phase, events, codecVars>>

Next ==
    \/ Mount \/ Teardown \/ Render \/ PlayToggle \/ Tick \/ ToggleStep \/ DeleteAll
    \/ TempoPress \/ HoldTimeout \/ RepeatTick \/ TempoRelease \/ TempoLeave
    \/ TempoKey \/ Upload \/ OpenExport \/ CloseExport \/ ExportWav \/ ExportFinish
    \/ PlayColumn \/ FlashTimeout \/ OpenShare \/ CloseShare \/ Copy \/ CopyTimeout
    \/ GoneTimeout \/ AbandonedFinish \/ AddSampleClick \/ PlayLabel

Init == CodecIdle /\ MixIdle /\ CompInit

Spec == Init /\ [][Next]_vars

(***************************************************************************)
(* The codec applied to bounded inputs.                                    *)
(***************************************************************************)
MaxRows == 2

\* steps a row of an input grid may select: the lowest bit, bit 30 and the
\* sign bit of the row mask
StepChoices == {0, 30, 31}
RowOf(S) == [i \in 0..(DEFAULT_NUM_STEPS - 1) |-> i \in S]
InputRows == {RowOf(S) : S \in SUBSET StepChoices}
InputGrids == UNION {[0..(n - 1) -> InputRows] : n \in 1..MaxRows}
InputTempos == {60, 61, 99, 100, 120, 239, 240}

\* "zzzzzzzzzzz" is 36^11 - 1, which parseInt rounds to 36^11
RowSegs == {"", "0", "5mmvrd", "-zik0zk", "!", "1!", "z z", "zzzzzzzzzzz"}
TempoSegs == {"120", "abc", "", "300", "-5", "12abc", " 90", "\t90", VerticalTab \o "90",
              NoBreakSpace \o "90", ByteOrderMark \o "-5"}

RowLists == UNION {[1..n -> RowSegs] : n \in 1..(MaxRows + 1)}
InputTokens ==
    {Join(rl, ".") \o "," \o t : rl \in RowLists, t \in TempoSegs}
        \cup {Join(rl, ".") : rl \in RowLists}
        \cup {Join(rl, ".") \o "," \o t \o ",9" : rl \in RowLists, t \in TempoSegs}

CodecInit ==
    /\ CompInit
    /\ MixIdle
    /\ codecPc = "start"
    /\ result = NullResult
    /\ \/ /\ codecMode = "roundtrip"
          /\ argGrid \in InputGrids
          /\ argTempo \in InputTempos
          /\ argStr = ""
          /\ argRows = Len0(argGrid)
       \/ /\ codecMode = "decode"
          /\ argGrid = NoGrid
          /\ argTempo = DEFAULT_TEMPO_BPM
          /\ argStr \in InputTokens
          /\ argRows \in 1..MaxRows

Encode ==
    /\ codecPc = "start"
    /\ codecMode = "roundtrip"
    /\ argStr' = encodePattern(argGrid, Num(argTempo))
    /\ codecPc' = "encoded"
    /\ UNCHANGED <<codecMode, argGrid, argTempo, argRows, result, mixVars, compVars>>

Decode ==
    /\ \/ codecPc = "encoded"
       \/ codecPc = "start" /\ codecMode = "decode"
    /\ result' = decodePattern(argStr, DEFAULT_NUM_STEPS, argRows)
    /\ codecPc' = "decoded"
    /\ UNCHANGED <<codecMode, argGrid, argTempo, argStr, argRows, mixVars, compVars>>

CodecNext == Encode \/ Decode

CodecSpec == CodecInit /\ [][CodecNext]_vars

(***************************************************************************)
(* The output length of handleExportWav, applied to bounded inputs.        *)
(*                                                                         *)
(* stepDuration = (60 / tempo) / 4, step * stepDuration * sampleRate and   *)
(* totalDuration * sampleRate are computed in doubles, each operation      *)
(* rounded, as the code computes them: for a tempo whose step duration is  *)
(* no binary fraction the product can fall just below the integer that     *)
(* step * 15 * 44100 / tempo is (tempo 100, step 31: 205064.99999999997,   *)
(* floor 205064).  The tempo is an integer from 60 to 240, or NaN.         *)
(***************************************************************************)
SampleRate == 44100
NoBuffer == 0 - 1

\* const stepDuration = (60 / tempo) / 4, for a tempo that is a number
StepDuration(t) == DblScale(DblQuot(60, t.v), 0 - 2)

\* step * stepDuration * sampleRate
StepStart(step, t) == DblTimes(DblTimes(StepDuration(t), step), SampleRate)

\* the start rounded up instead of down
StartSampleCeil(step, t) ==
    IF t.nan THEN NaN ELSE Num(DblCeil(StepStart(step, t)))

\* Math.floor(step * stepDuration * sampleRate)
StartSample(step, t) ==
    IF t.nan THEN NaN ELSE Num(DblFloor(StepStart(step, t)))

\* startSample + buf.length
EndSample(step, t, len) == NumAdd(StartSample(step, t), len)

\* the (row, step) cells the two loops do not skip: the row has a buffer
\* and the step is selected
MixedCells(sel, bufs) ==
    {c \in (DOMAIN sel) \X (0..31) : bufs[c[1]] # NoBuffer /\ sel[c[1]][c[2]]}

\* the endSample values that are numbers; endSample > maxEndSample is false
\* for NaN
EndSamples(sel, bufs, t) ==
    IF t.nan THEN {}
    ELSE {EndSample(c[2], t, bufs[c[1]]).v : c \in MixedCells(sel, bufs)}

\* maxEndSample after the loops: the largest endSample met, or the initial 0
MaxEndSample(sel, bufs, t) ==
    CHOOSE m \in EndSamples(sel, bufs, t) \cup {0} :
        \A x \in EndSamples(sel, bufs, t) \cup {0} : x <= m

\* const totalDuration = stepDuration * 32
TotalDuration(t) == DblScale(StepDuration(t), 5)

\* Math.ceil(totalDuration * sampleRate)
DefaultSamples(t) ==
    IF t.nan THEN NaN ELSE Num(DblCeil(DblTimes(TotalDuration(t), SampleRate)))

\* Math.max(Math.ceil(totalDuration * sampleRate), maxEndSample)
TotalSamples(sel, bufs, t) ==
    MathMax(DefaultSamples(t), Num(MaxEndSample(sel, bufs, t)))

\* the length of new Float32Array(n): ToIndex takes NaN to 0
Float32ArrayLength(n) == IF n.nan THEN 0 ELSE n.v

\* selected[i].some(Boolean)
RowSelected(sel, r) == \E i \in DOMAIN sel[r] : sel[r][i]

\* the loading loop from the row after the last buffer to the next await:
\* a row with no step selected gets null and the loop goes on
RECURSIVE SkipRows(_, _)
SkipRows(sel, bufs) ==
    IF Len0(bufs) < Len0(sel) /\ ~RowSelected(sel, Len0(bufs))
    THEN SkipRows(sel, Append0(bufs, NoBuffer))
    ELSE bufs

MixSteps == {0, 31}
MixRows == {RowOf(S) : S \in SUBSET MixSteps}
MixGrids == UNION {[0..(n - 1) -> MixRows] : n \in 1..MaxRows}
\* 60, 80, 120 and 240 have the step durations 1/4, 3/16, 1/8 and 1/16 s; that
\* of 100 is no binary fraction
MixTempos == {Num(60), Num(80), Num(100), Num(120), Num(240), NaN}
MixLengths == {1, 22050, 44100}

ExportInit ==
    /\ CompInit
    /\ CodecIdle
    /\ mixPc = "start"
    /\ mixSelected \in MixGrids
    /\ mixTempo \in MixTempos
    /\ mixDecoded \in [DOMAIN mixSelected -> MixLengths]
    /\ buffers = <<>>
    /\ totalSamples = NaN
    /\ outputLength = 0

\* the call goes on with the buffers bufs until it awaits the next sample;
\* with every row done it runs on through the mixdown in the same task
ExportContinues(bufs) ==
    /\ buffers' = bufs
    /\ IF Len0(bufs) < Len0(mixSelected)
       THEN mixPc' = "awaiting" /\ UNCHANGED <<totalSamples, outputLength>>
       ELSE /\ mixPc' = "done"
            /\ totalSamples' = TotalSamples(mixSelected, bufs, mixTempo)
            /\ outputLength' = Float32ArrayLength(TotalSamples(mixSelected, bufs, mixTempo))
    /\ UNCHANGED <<mixSelected, mixTempo, mixDecoded>>
    /\ UNCHANGED <<codecPc, codecMode, argGrid, argTempo, argStr, argRows, result,
                   compVars>>

\* the loop starts: up to its first await
LoadBuffers ==
    /\ mixPc = "start"
    /\ ExportContinues(SkipRows(mixSelected, buffers))

\* the awaited sample arrives: buffers[i] = buf, and on to the next await
BufferLoaded ==
    /\ mixPc = "awaiting"
    /\ ExportContinues(SkipRows(mixSelected, Append0(buffers, mixDecoded[Len0(buffers)])))

\* the awaited fetch or decode rejects: the catch branch, no output
BufferFailed ==
    /\ mixPc = "awaiting"
    /\ mixPc' = "failed"
    /\ UNCHANGED <<mixSelected, mixTempo, mixDecoded, buffers, totalSamples, outputLength>>
    /\ UNCHANGED <<codecPc, codecMode, argGrid, argTempo, argStr, argRows, result,
                   compVars>>

ExportNext == LoadBuffers \/ BufferLoaded \/ BufferFailed

ExportSpec == ExportInit /\ [][ExportNext]_vars

(***************************************************************************)
(* Claims about the codec.                                                 *)
(***************************************************************************)
\* the '.'-separated row segments of a token (of its part before the first ',')
RowSegments(str) == Split(Split(str, ",")[1], ".")
\* the tempo segment of a token: the part after the first ','
HasTempoSegment(str) == Len(Split(str, ",")) >= 2
TempoSegment(str) == Split(str, ",")[2]

\* a valid base-36 number: an optional '-', then one or more base-36 digits
IsBase36(seg) ==
    LET body == IF Len(seg) > 0 /\ Head(seg) = "-" THEN Tail(seg) ELSE seg
    IN  /\ Len(body) > 0
        /\ \A i \in 1..Len(body) : DigitVal(CharAt(body, i)) >= 0

\* C1: round trip. Decoding the token encodePattern made of a grid of R rows
\* of 32 steps and a tempo in [60,240], with R the expected row count,
\* succeeds and returns exactly that grid and that tempo, also when step 31
\* (the sign bit of the row mask) is selected.
C1_RoundTrip ==
    (codecPc = "decoded" /\ codecMode = "roundtrip")
        => result = [isNull |-> FALSE, selected |-> argGrid, tempo |-> Num(argTempo)]

C1_Witness ==
    /\ codecPc = "decoded" /\ codecMode = "roundtrip"
    /\ Len0(argGrid) = 2
    /\ argGrid[0][31] /\ argGrid[1][0] /\ ~argGrid[1][31]
    /\ ~result.isNull
    /\ result.selected[0][31]

\* C3: Start (stopped -> running) always sets the cursor to 0 and the
\* scheduler to running, whatever the cursor was when playback stopped.
C3_StartResetsCursor ==
    lastAction = "Start" => (currentStep = 0 /\ isPlaying)

C3_Witness ==
    lastAction = "Start" /\ prevStep = 31 /\ currentStep = 0 /\ isPlaying

StepTimers == {t \in timers : t.kind = "step" /\ ~t.gone}

\* nothing is set that React has not rendered
Settled == ReactState(Cur) = rendered

\* the sounds the play effect started
IsSchedulerSound(s) == s.by = "scheduler"
SchedulerSounds(sounds) == SelectSeq(sounds, IsSchedulerSound)
\* the sounds playColumn started
IsColumnSound(s) == s.by = "column"
ColumnSounds(sounds) == SelectSeq(sounds, IsColumnSound)

\* C4: while stopped the cursor does not change, no playback timer is
\* pending (the tick pending at Stop is cancelled) and the scheduler starts
\* no sound.
C4_StoppedStaysStill ==
    (phase = "mounted" /\ ~isPlaying) =>
        /\ currentStep = prevStep
        /\ StepTimers = {}
        /\ \A i \in 1..Len(played) : played[i].by # "scheduler"

C4_Witness ==
    /\ phase = "mounted" /\ ~isPlaying
    /\ lastAction = "Toggle"
    /\ currentStep = 7
    /\ StepTimers = {}

\* C5: while running, once what was set is rendered and the effects have run,
\* exactly one playback timer is pending and its period is that of the
\* current tempo.
C5_RunningHasOneTimer ==
    (Alive /\ isPlaying /\ Settled) =>
        /\ Cardinality(StepTimers) = 1
        /\ \A t \in StepTimers : t.ms = stepIntervalMs(tempo)

TempoActions ==
    {"TempoPress", "HoldTimeout", "RepeatTick", "TempoRelease", "TempoLeave", "TempoKey"}

\* C6: a tempo change while running leaves the cursor unchanged; the commit
\* that renders it (and nothing else with it) starts no sound and leaves one
\* playback timer pending at the new tempo's period; every tick advances the
\* cursor by exactly one.
C6_TempoChangeKeepsStep ==
    [][/\ lastAction' \in TempoActions => currentStep' = currentStep
       /\ (/\ Alive' /\ rendered.isPlaying
           /\ rendered'.tempo # rendered.tempo
           /\ rendered' = [rendered EXCEPT !.tempo = rendered'.tempo])
             => /\ played' = <<>>
                /\ Cardinality(StepTimers') = 1
                /\ \A t \in StepTimers' : t.ms = stepIntervalMs(rendered'.tempo)
       /\ lastAction' = "Tick" => currentStep' = (currentStep + 1) % numSteps]_vars

C6_Witness ==
    /\ lastAction = "Render:RepeatTick"
    /\ rendered.isPlaying /\ rendered.tempo # InitialTempo
    /\ rendered.currentStep = 5
    /\ played = <<>>
    /\ \E t \in StepTimers : t.ms = stepIntervalMs(rendered.tempo)

\* C7: while running, the commit that renders Start or a new cursor value
\* starts exactly the sounds of the rows selected at the cursor, and no
\* other step of the component starts the current step's sounds again.
C7_OneTriggerPerStep ==
    [][(Alive' /\ rendered'.isPlaying) =>
          IF rendered'.currentStep # rendered.currentStep \/ ~rendered.isPlaying
          THEN SchedulerSounds(played') = PlaySelected(rendered', rendered'.currentStep)
          ELSE SchedulerSounds(played') = <<>>]_vars

\* C2: the tempo is an integer in [60,240] in every state.
C2_TempoInRange ==
    ~tempo.nan /\ tempo.v >= MIN_TEMPO /\ tempo.v <= MAX_TEMPO

\* C8: decodePattern returns null for every token whose number of row
\* segments differs from the expected row count, too few or too many.
C8_RowCountMismatchFails ==
    (codecPc = "decoded" /\ Len(RowSegments(argStr)) # argRows) => result.isNull

C8_Witness ==
    /\ codecPc = "decoded" /\ codecMode = "decode"
    /\ Len(RowSegments(argStr)) > argRows
    /\ \A i \in 1..Len(RowSegments(argStr)) : IsBase36(RowSegments(argStr)[i])
    /\ HasTempoSegment(argStr) /\ TempoSegment(argStr) = "120"
    /\ result.isNull

\* C9: decodePattern returns null for every token whose tempo segment is
\* non-numeric; no successful result carries a tempo that is not a number.
C9_NonNumericTempoFails ==
    codecPc = "decoded" =>
        /\ (HasTempoSegment(argStr) /\ ParseInt(TempoSegment(argStr), 10).nan)
              => result.isNull
        /\ ~result.isNull => ~result.tempo.nan

\* C10: decodePattern returns null for every token that has a row segment
\* which is not a valid base-36 number.
C10_MalformedRowFails ==
    (codecPc = "decoded"
        /\ \E i \in 1..Len(RowSegments(argStr)) : ~IsBase36(RowSegments(argStr)[i]))
        => result.isNull

(***************************************************************************)
(* Claims about the page load.                                             *)
(***************************************************************************)
\* a decimal number: an optional sign, then one or more decimal digits
IsDecimal(seg) ==
    /\ Len(seg) > 0
    /\ Len(IF Head(seg) = "-" \/ Head(seg) = "+" THEN Tail(seg) ELSE seg) > 0
    /\ \A i \in 1..Len(seg) :
          \/ i = 1 /\ (Head(seg) = "-" \/ Head(seg) = "+")
          \/ (DigitVal(CharAt(seg, i)) >= 0 /\ DigitVal(CharAt(seg, i)) < 10)

\* a share token for n rows: n base-36 row segments, a ',' and a decimal tempo
WellFormedToken(str, n) ==
    /\ Len(Split(str, ",")) = 2
    /\ Len(RowSegments(str)) = n
    /\ \A i \in 1..Len(RowSegments(str)) : IsBase36(RowSegments(str)[i])
    /\ IsDecimal(TempoSegment(str))

\* C11: a page load with empty local storage whose ?song= token is
\* unparseable or has a row count other than the number of instruments leaves
\* the grid and the tempo exactly as they were (the default pattern and its
\* tempo): neither is updated from the token.
C11_BadTokenIgnored ==
    (Alive /\ events = 1 /\ urlSong # Null
        /\ ~WellFormedToken(urlSong, Len0(defaultSamples)))
        => /\ selected = InitialPattern /\ rendered.selected = InitialPattern
           /\ tempo = InitialTempo /\ rendered.tempo = InitialTempo

(***************************************************************************)
(* Claims about the tempo buttons.                                         *)
(***************************************************************************)
\* C13: a release (mouse up, touch end) of a press whose 200 ms hold delay
\* has not elapsed changes the tempo by exactly one clamped step and leaves
\* no tempo timer pending, so no repeat starts; a release of a press that is
\* repeating leaves the tempo as the repeats left it, with no further step,
\* and stops the repeat.
C13_ClickOrHold ==
    lastAction = "TempoRelease" =>
        /\ prevPress = "pending" =>
              /\ tempo \in {ClampStep(prevTempo, 1), ClampStep(prevTempo, -1)}
              /\ TempoTimers = {}
        /\ prevPress = "repeating" =>
              /\ tempo = prevTempo
              /\ TempoTimers = {}

C13_Witness ==
    /\ lastAction = "TempoRelease" /\ prevPress = "pending"
    /\ prevTempo = Num(120) /\ tempo = Num(121)
    /\ TempoTimers = {}

\* C14: at most one hold-delay timer and at most one repeat timer are
\* pending at any time, also when two presses arrive with no release
\* between them, and after a release (mouse up, touch end, mouse leave) no
\* tempo timer is pending.
C14_OneTempoTimer ==
    /\ Cardinality({t \in timers : t.kind = "hold"}) <= 1
    /\ Cardinality({t \in timers : t.kind = "repeat"}) <= 1
    /\ lastAction \in {"TempoRelease", "TempoLeave"} => TempoTimers = {}

(***************************************************************************)
(* Claims about the column headers.                                        *)
(***************************************************************************)
\* C15: a click on a column header, stopped or running, starts exactly one
\* sound for each row whose cell at that column is selected and no other
\* sound (the commit of the click starts the scheduler's sounds only for a
\* tick that was still to be rendered), and leaves the cursor, the running
\* state, the grid and the tempo as they were.
C15_PlayColumnOnlyPlays ==
    [][lastAction' = "PlayColumn" =>
          /\ flashedColumn' \in 0..(numSteps - 1)
          /\ {s.row : s \in {ColumnSounds(played')[i] : i \in 1..Len(ColumnSounds(played'))}}
                = {r \in DOMAIN rendered.selected : rendered.selected[r][flashedColumn']}
          /\ Len(ColumnSounds(played'))
                = Cardinality({r \in DOMAIN rendered.selected :
                                  rendered.selected[r][flashedColumn']})
          /\ Settled => Len(played') = Len(ColumnSounds(played'))
          /\ UNCHANGED <<currentStep, isPlaying, selected, tempo>>]_vars

C15_Witness ==
    /\ lastAction = "PlayColumn" /\ isPlaying
    /\ flashedColumn = 0 /\ currentStep = 5
    /\ Len(played) > 1
    /\ \A i \in 1..Len(played) : played[i].by = "column"

(***************************************************************************)
(* Claims about the grid's shape and the uploaded sample.                   *)
(***************************************************************************)
\* C16: in every state the grid has one row for each instrument and every
\* row has exactly 32 cells, also after a restore from local storage.
C16_GridShape ==
    /\ DOMAIN selected = DOMAIN samples
    /\ \A r \in DOMAIN selected : DOMAIN selected[r] = 0..(DEFAULT_NUM_STEPS - 1)


\* C17: every object URL made for an uploaded file has been revoked, unless
\* the component is on the page and still holds it: an upload releases the
\* URL it supersedes and the teardown releases the one held.
C17_NoUrlLeftUnreleased ==
    \A u \in uploaded : u \in revoked \/ (Alive /\ u = userSampleUrl)

\* the component was taken down after a second upload had superseded the first
C17_Witness ==
    /\ lastAction = "Teardown"
    /\ uploaded = {UrlName(1), UrlName(2)}
    /\ Len0(ls.samples) = Len0(defaultSamples) + 2
    /\ ls.userSampleUrl = UrlName(2)
    /\ {UrlName(1), UrlName(2)} \subseteq revoked

(***************************************************************************)
(* Claims about the export.                                                *)
(***************************************************************************)
\* C18: when loading a sample fails during an export, the attempt ends with
\* the export error set, no download URL, and the exporting flag cleared,
\* and that is what the next render shows.
C18_FailedExportReported ==
    /\ lastAction \in {"ExportFailed", "Render:ExportFailed"} =>
          /\ exportError = "Failed to export WAV. Try again."
          /\ exportUrl = Null
          /\ ~exporting
          /\ ~exportJob.active
    /\ lastAction = "Render:ExportFailed" =>
          /\ rendered.exportError = "Failed to export WAV. Try again."
          /\ rendered.exportUrl = Null
          /\ ~rendered.exporting

\* an export of a pattern with a selected step has failed and the failure
\* is rendered
C18_Witness ==
    /\ lastAction = "Render:ExportFailed"
    /\ AnySelected(selected)
    /\ rendered.showExportModal
    /\ rendered.exportError = "Failed to export WAV. Try again."

\* C19: an export with no step selected anywhere gives an output of
\* 32 * stepDuration * sampleRate samples, and never an empty one.
C19_EmptyGridFullLength ==
    (mixPc = "done" /\ ~AnySelected(mixSelected)) =>
        /\ outputLength > 0
        /\ ~mixTempo.nan
        /\ outputLength * mixTempo.v = 32 * 15 * SampleRate

\* the grids in which step 31 of one row is the only step selected
OnlyStep31(sel) ==
    \E r \in DOMAIN sel :
        \A q \in DOMAIN sel : \A i \in DOMAIN sel[q] :
            sel[q][i] <=> (q = r /\ i = 31)

\* the length of the one loaded buffer
LoadedLengths(bufs) == {bufs[r] : r \in DOMAIN bufs} \ {NoBuffer}

\* the export of the example: only step 31, a sample of 22050 samples, tempo 120
Step31Example ==
    /\ mixPc = "done"
    /\ OnlyStep31(mixSelected)
    /\ LoadedLengths(buffers) = {22050}
    /\ mixTempo = Num(120)

\* C20 as stated: the example's output is ceil((31*0.125 + 0.5) * 44100) =
\* 192938 samples long.
C20_ExampleCeil == Step31Example => outputLength = 192938

\* C20, amended: the example's output is floor(31*0.125*44100) + 22050 =
\* 192937 samples long, which is more than the 176400 of 32 bare steps.
C20_ExampleFloor ==
    Step31Example => outputLength = 192937 /\ outputLength > (32 * 15 * SampleRate) \div 120

C20_Witness == Step31Example /\ totalSamples = Num(192937)

(***************************************************************************)
(* Claims about a rejected upload and the page load's precedence.          *)
(***************************************************************************)
\* C21: an upload of a file that is not an MP3 shows the message and leaves
\* the instruments, the grid, the held user-sample URL and the tempo as they
\* were, and revokes no URL (the commit of the rejection revokes one only
\* for a URL change that was still to be rendered).
C21_RejectedUploadChangesNothing ==
    [][lastAction' = "UploadRejected" =>
          /\ uploadError' = "Only MP3 files are supported."
          /\ rendered'.uploadError = "Only MP3 files are supported."
          /\ UNCHANGED <<samples, selected, userSampleUrl, tempo, nextUrl>>
          /\ Settled => UNCHANGED revoked]_vars

\* a file was rejected while an uploaded sample's URL is held
C21_Witness ==
    /\ lastAction = "UploadRejected"
    /\ uploadError = "Only MP3 files are supported."
    /\ userSampleUrl # Null
    /\ userSampleUrl \notin revoked

\* C22: a page load that finds saved state in local storage while the URL
\* carries a valid share token restores the stored grid and the stored tempo,
\* and does not apply the token.
C22_StorageBeforeUrl ==
    [][(/\ lastAction' = "Mount"
        /\ ls.has
        /\ urlSong' # Null
        /\ WellFormedToken(urlSong', Len0(defaultSamples)))
          => /\ selected' = ls.selected
             /\ tempo' = ParseInt(ls.tempo, 10)]_vars

(***************************************************************************)
(* Claims about the cursor.                                                *)
(***************************************************************************)
\* C23: the cursor is always one of the 32 steps, and while running a timer
\* tick moves it from c to (c + 1) mod 32, so from 31 to 0.
C23_TickWraps ==
    /\ currentStep \in 0..(DEFAULT_NUM_STEPS - 1)
    /\ (lastAction = "Tick" /\ isPlaying) =>
          currentStep = (prevStep + 1) % DEFAULT_NUM_STEPS

\* a tick while running has just wrapped the cursor from 31 to 0
C23_Witness ==
    lastAction = "Tick" /\ isPlaying /\ prevStep = DEFAULT_NUM_STEPS - 1 /\ currentStep = 0

(***************************************************************************)
(* Claims about tokens with more than two parts.                           *)
(***************************************************************************)
\* C24: decodePattern returns null for every token that does not split on
\* ',' into exactly two parts, tokens of three or more parts included.
C24_TwoPartsOrFail ==
    (codecPc = "decoded" /\ Len(Split(argStr, ",")) # 2) => result.isNull

(***************************************************************************)
(* Claims about the column highlight.                                      *)
(***************************************************************************)
FlashTimers == {t \in timers : t.kind = "flash"}

\* C25: at most one flash-clear timer is pending, and while a column is
\* highlighted the timer of the most recent click is pending to clear it,
\* so the highlight never stays set for good.
C25_HighlightAlwaysClears ==
    Alive =>
        /\ Cardinality(FlashTimers) <= 1
        /\ flashedColumn # NoColumn =>
              \E t \in FlashTimers : t.id = flashTimeoutRef /\ t.ms = Ms(200)

(***************************************************************************)
(* Claims about the export's length with steps selected.                   *)
(***************************************************************************)
\* the selected cells of the exported grid
SelectedCells == {c \in (DOMAIN mixSelected) \X (0..31) : mixSelected[c[1]][c[2]]}

\* where the sound of a selected cell ends: floor(step * stepDuration *
\* sampleRate) + sourceBuffer.length, the products taken in doubles
SoundEnd(c) == StartSample(c[2], mixTempo).v + mixDecoded[c[1]]

\* C26: with a step selected and a tempo that is a number, the output is
\* exactly as long as the latest end of a selected sound; the 32-step length
\* is not used.
C26_ExactlyLastSoundEnd ==
    (mixPc = "done" /\ SelectedCells # {} /\ ~mixTempo.nan) =>
        /\ \A c \in SelectedCells : outputLength >= SoundEnd(c)
        /\ \E c \in SelectedCells : outputLength = SoundEnd(c)

(***************************************************************************)
(* Claims about an export left behind and about the URLs held.             *)
(***************************************************************************)
\* C27: an export that completes after its dialog was closed is not
\* applied: it sets no download URL and no export error.
C27_AbandonedExportNotApplied ==
    (lastAction \in {"ExportFinish", "ExportFailed"} /\ ~showExportModal) =>
        /\ exportUrl = Null
        /\ exportError = Null

\* C28: an object URL held in state is not revoked while it is the current
\* one: neither the user sample's URL nor the export's download URL.
C28_CurrentUrlNotRevoked ==
    Alive =>
        /\ userSampleUrl # Null => userSampleUrl \notin revoked
        /\ exportUrl # Null => exportUrl \notin revoked

(***************************************************************************)
(* Claims about a press and its release.                                   *)
(***************************************************************************)
\* C29: a mouse down on a tempo button at a tempo strictly between 60 and
\* 240, followed by the mouse up with nothing but the hold delay between
\* them, changes the tempo, also when the hold delay has elapsed and no
\* repeat has ticked yet.
C29_PressReleaseChangesTempo ==
    [][(/\ lastAction' = "TempoRelease"
        /\ PressPending \/ Repeating
        /\ ~pressTempo.nan
        /\ pressTempo.v > MIN_TEMPO /\ pressTempo.v < MAX_TEMPO)
          => tempo' # pressTempo]_vars

(***************************************************************************)
(* Claims about the rows of uploaded samples.                              *)
(***************************************************************************)
\* the rows added by uploads
UserRows == {r \in DOMAIN samples : samples[r].isUserSample}

\* the object URL made by the upload that added the row r
UploadedUrl(r) ==
    UrlName(CHOOSE n \in 1..nextUrl : UserFileName(n) = samples[r].name)

\* C30: a row added by an upload plays the asset uploaded with it, also
\* after later uploads: the source playSound takes for the row, and the
\* source of every sound it has started for the row, is that upload's URL.
C30_RowKeepsItsAsset ==
    Alive =>
        /\ \A r \in UserRows : SoundUrl(Cur, r) = UploadedUrl(r)
        /\ \A i \in 1..Len(played) :
              played[i].row \in UserRows => played[i].url = UploadedUrl(played[i].row)
====
